---- MODULE Spec2Model ----
(***************************************************************************)
(* Model of llkhacquan/httpclient: the request execution and response      *)
(* handling protocol of Client (Get/Post/Put/Patch/Delete), the functional *)
(* options (WithHeader, WithHeaders, WithStatus) and their fold.           *)
(*                                                                         *)
(* One call is modelled step by step: the method is entered (options are   *)
(* folded), the request is built, the transport is invoked, the response   *)
(* is interpreted (status, body read, decode) and the deferred Close runs. *)
(* The collaborators (marshal, transport, body stream, unmarshal) are      *)
(* nondeterministic in their outcome; every use of them is counted.        *)
(***************************************************************************)
EXTENDS Integers, Sequences, FiniteSets, TLC

\* ------------------------------------------------------------------ bounds
\* Longest option list passed to one call.
MaxOpts == 2
\* Number of successive calls a caller makes on one Client.
MaxCalls == 2

\* ------------------------------------------------------------ byte strings
\* The base64 alphabet of encoding/base64 (StdEncoding), as ASCII codes.
B64Char(i) ==
    IF i < 26 THEN 65 + i
    ELSE IF i < 52 THEN 97 + (i - 26)
    ELSE IF i < 62 THEN 48 + (i - 52)
    ELSE IF i = 62 THEN 43 ELSE 47

RECURSIVE Base64(_)
Base64(d) ==
    IF Len(d) = 0 THEN <<>>
    ELSE IF Len(d) = 1 THEN
        <<B64Char(d[1] \div 4), B64Char((d[1] % 4) * 16), 61, 61>>
    ELSE IF Len(d) = 2 THEN
        <<B64Char(d[1] \div 4), B64Char((d[1] % 4) * 16 + (d[2] \div 16)),
          B64Char((d[2] % 16) * 4), 61>>
    ELSE
        <<B64Char(d[1] \div 4), B64Char((d[1] % 4) * 16 + (d[2] \div 16)),
          B64Char((d[2] % 16) * 4 + (d[3] \div 64)), B64Char(d[3] % 64)>>
        \o Base64(SubSeq(d, 4, Len(d)))

\* Decimal digits of a natural number, as ASCII codes.
RECURSIVE Digits(_)
Digits(n) == IF n < 10 THEN <<48 + n>> ELSE Digits(n \div 10) \o <<48 + (n % 10)>>

\* Value of a string of ASCII digits.
RECURSIVE ParseInt(_)
ParseInt(s) ==
    IF Len(s) = 0 THEN 0
    ELSE ParseInt(SubSeq(s, 1, Len(s) - 1)) * 10 + (s[Len(s)] - 48)

IsDigits(s) == Len(s) > 0 /\ \A i \in 1..Len(s) : s[i] \in 48..57

\* ------------------------------------------------------------ request body
\* The body argument (interface{}): nil, a []byte, a serialisable value (an
\* integer) or a value json.Marshal rejects (a channel).
NilBody == [kind |-> "nil", data |-> <<>>, v |-> 0]
BytesBody(d) == [kind |-> "bytes", data |-> d, v |-> 0]
ValueBody(n) == [kind |-> "value", data |-> <<>>, v |-> n]
ChanBody == [kind |-> "chan", data |-> <<>>, v |-> 0]

\* The raw payload {"a":1}.
RawBodies == {<<123, 34, 97, 34, 58, 49, 125>>}
Bodies == {NilBody, ChanBody, ValueBody(7)} \cup {BytesBody(d) : d \in RawBodies}

\* encoding/json on the modelled values: a []byte becomes a quoted base64
\* string, an integer its decimal digits, a channel is an error.
jsonMarshal(b) ==
    IF b.kind = "bytes" THEN [ok |-> TRUE, out |-> <<34>> \o Base64(b.data) \o <<34>>]
    ELSE IF b.kind = "value" THEN [ok |-> TRUE, out |-> Digits(b.v)]
    ELSE IF b.kind = "nil" THEN [ok |-> TRUE, out |-> <<110, 117, 108, 108>>]
    ELSE [ok |-> FALSE, out |-> <<>>]

\* A caller-supplied MarshalFunc: it either fails or wraps the JSON of the
\* value in an envelope (as the test's custom marshal does).
customMarshal(b, fails) ==
    IF fails \/ ~jsonMarshal(b).ok THEN [ok |-> FALSE, out |-> <<>>]
    ELSE [ok |-> TRUE, out |-> <<123>> \o jsonMarshal(b).out \o <<125>>]

\* Client.marshal: MarshalFunc when set, json.Marshal otherwise.
marshal(c, b, fails) ==
    IF c.MarshalFunc THEN customMarshal(b, fails) ELSE jsonMarshal(b)

\* ------------------------------------------------------------------ headers
LowerCase == <<"a","b","c","d","e","f","g","h","i","j","k","l","m",
               "n","o","p","q","r","s","t","u","v","w","x","y","z">>
UpperCase == <<"A","B","C","D","E","F","G","H","I","J","K","L","M",
               "N","O","P","Q","R","S","T","U","V","W","X","Y","Z">>
IsLower(ch) == \E i \in 1..26 : LowerCase[i] = ch
IsUpper(ch) == \E i \in 1..26 : UpperCase[i] = ch
ToUpper(ch) == IF IsLower(ch) THEN UpperCase[CHOOSE i \in 1..26 : LowerCase[i] = ch] ELSE ch
ToLower(ch) == IF IsUpper(ch) THEN LowerCase[CHOOSE i \in 1..26 : UpperCase[i] = ch] ELSE ch
ValidHeaderFieldByte(ch) == IsLower(ch) \/ IsUpper(ch) \/ ch = "-"

\* textproto.CanonicalMIMEHeaderKey, which http.Header.Set applies to the key:
\* the first letter and every letter after a hyphen in upper case, the others
\* in lower case; a key holding a byte that is not a token byte is unchanged.
CanonicalMIMEHeaderKey(k) ==
    IF \E i \in 1..Len(k) : ~ValidHeaderFieldByte(k[i]) THEN k
    ELSE [i \in 1..Len(k) |->
            IF i = 1 \/ k[i - 1] = "-" THEN ToUpper(k[i]) ELSE ToLower(k[i])]

\* Header names are sequences of characters.
KeyContentType == <<"C","o","n","t","e","n","t","-","T","y","p","e">>
KeyContentTypeLower == <<"c","o","n","t","e","n","t","-","t","y","p","e">>
KeyX == <<"X">>
Keys == {KeyContentType, KeyContentTypeLower, KeyX}
ApplicationJSON == "application/json"

\* map[string]string values; the empty map.
EmptyMap == [k \in {} |-> ""]
MapPut(m, k, v) == [x \in (DOMAIN m) \cup {k} |-> IF x = k THEN v ELSE m[x]]

\* http.Header: canonical name -> list of values.
EmptyHeader == [k \in {} |-> <<>>]

\* http.Header.Set: the key is canonicalised and its values are replaced by
\* the single value given.
HeaderSet(h, k, v) ==
    LET c == CanonicalMIMEHeaderKey(k)
    IN  [x \in (DOMAIN h) \cup {c} |-> IF x = c THEN <<v>> ELSE h[x]]

\* ------------------------------------------------------------------ options
\* A Go map is a reference: WithHeaders stores the caller's map itself in
\* Options.Headers. The heap holds the maps a call can reach: the caller's
\* two maps and the one WithHeader allocates with make.
CallerMaps == {"m1", "m2"}
Refs == CallerMaps \cup {"made"}
InitHeap ==
    [r \in Refs |->
        IF r = "m1" THEN MapPut(EmptyMap, KeyX, "1")
        ELSE IF r = "m2" THEN MapPut(EmptyMap, KeyContentTypeLower, "2")
        ELSE EmptyMap]

\* The caller's status variables (var status int).
Sinks == {"s1", "s2"}

\* Options{}: the zero value built by buildOptions.
ZeroOptions == [Headers |-> "nil", Status |-> "nil", Client |-> "nil"]

\* Option values (closures over their arguments).
WithHeaders(headers) == [op |-> "WithHeaders", key |-> <<>>, value |-> "", ref |-> headers, status |-> "nil"]
WithHeader(key, value) == [op |-> "WithHeader", key |-> key, value |-> value, ref |-> "nil", status |-> "nil"]
WithStatus(status) == [op |-> "WithStatus", key |-> <<>>, value |-> "", ref |-> "nil", status |-> status]

\* The options a caller passes.
OptionSet ==
    {WithHeader(KeyX, "1"), WithHeader(KeyX, "2"),
     WithHeader(KeyContentType, "1"), WithHeader(KeyContentTypeLower, "2")}
    \cup {WithHeaders(r) : r \in CallerMaps}
    \cup {WithStatus(x) : x \in Sinks}
OptionLists == UNION {[1..n -> OptionSet] : n \in 0..MaxOpts}

\* The closure bodies, on st = [o |-> the Options, heap |-> the maps].
applyWithHeaders(opt, st) ==
    [st EXCEPT !.o.Headers = opt.ref]

\* Variant: a key already in the map keeps its first value.
applyWithHeaderKeepFirst(opt, st) ==
    LET r == IF st.o.Headers = "nil" THEN "made" ELSE st.o.Headers
    IN  [o |-> [st.o EXCEPT !.Headers = r],
         heap |-> [st.heap EXCEPT ![r] =
                      IF opt.key \in DOMAIN st.heap[r] THEN st.heap[r]
                      ELSE MapPut(st.heap[r], opt.key, opt.value)]]

applyWithHeader(opt, st) ==
    LET r == IF st.o.Headers = "nil" THEN "made" ELSE st.o.Headers
    IN  [o |-> [st.o EXCEPT !.Headers = r],
         heap |-> [st.heap EXCEPT ![r] = MapPut(st.heap[r], opt.key, opt.value)]]

applyWithStatus(opt, st) ==
    [st EXCEPT !.o.Status = opt.status]

applyOption(opt, st) ==
    IF opt.op = "WithHeaders" THEN applyWithHeaders(opt, st)
    ELSE IF opt.op = "WithHeader" THEN applyWithHeader(opt, st)
    ELSE applyWithStatus(opt, st)

\* buildOptions: the options applied in order to a zero Options.
RECURSIVE foldOptions(_, _, _)
foldOptions(opts, i, st) ==
    IF i > Len(opts) THEN st ELSE foldOptions(opts, i + 1, applyOption(opts[i], st))

buildOptions(opts, h) == foldOptions(opts, 1, [o |-> ZeroOptions, heap |-> h])

\* The header map a folded Options refers to (a nil map ranges over nothing).
HeadersOf(o, h) == IF o.Headers = "nil" THEN EmptyMap ELSE h[o.Headers]

\* ------------------------------------------------------------------ request
NoRequest == [Method |-> "", Payload |-> <<>>, Header |-> EmptyHeader]

\* The orders in which a range loop may visit the keys of a map.
Orders(S) ==
    {f \in [1..Cardinality(S) -> S] : \A i, j \in 1..Cardinality(S) : i # j => f[i] # f[j]}

\* for key, value := range options.Headers { req.Header.Set(key, value) }
RECURSIVE applyHeaders(_, _, _, _)
applyHeaders(h, m, ord, i) ==
    IF i > Cardinality(DOMAIN m) THEN h
    ELSE applyHeaders(HeaderSet(h, ord[i], m[ord[i]]), m, ord, i + 1)

\* Variant: the marshal error is dropped and the request is sent without body.
buildRequestIgnoringMarshalError(c, method, urlOk, body, o, h, fails, ord) ==
    IF ~urlOk THEN
        [ok |-> FALSE, req |-> NoRequest,
         err |-> <<"failed to create request", "url error">>]
    ELSE
        [ok |-> TRUE,
         req |-> [Method |-> method,
                  Payload |-> IF body.kind # "nil" THEN marshal(c, body, fails).out ELSE <<>>,
                  Header |-> applyHeaders(EmptyHeader, HeadersOf(o, h), ord, 1)],
         err |-> <<>>]

\* Client.buildRequest. urlOk: http.NewRequestWithContext accepts the URL;
\* fails: a custom MarshalFunc fails; ord: the map iteration order.
buildRequest(c, method, urlOk, body, o, h, fails, ord) ==
    LET m == IF body.kind # "nil" THEN marshal(c, body, fails)
             ELSE [ok |-> TRUE, out |-> <<>>]
    IN  IF ~m.ok THEN
            [ok |-> FALSE, req |-> NoRequest,
             err |-> <<"failed to marshal request body", "marshal error">>]
        ELSE IF ~urlOk THEN
            [ok |-> FALSE, req |-> NoRequest,
             err |-> <<"failed to create request", "url error">>]
        ELSE
            [ok |-> TRUE,
             req |-> [Method |-> method, Payload |-> m.out,
                      Header |-> applyHeaders(EmptyHeader, HeadersOf(o, h), ord, 1)],
             err |-> <<>>]

\* Variant: the Content-Type is set only when the caller gave none.
SetContentTypeIfAbsent(req) ==
    IF KeyContentType \in DOMAIN req.Header THEN req
    ELSE [req EXCEPT !.Header = HeaderSet(req.Header, KeyContentType, ApplicationJSON)]

\* Post and Patch: req.Header.Set("Content-Type", "application/json").
SetContentType(req) ==
    [req EXCEPT !.Header = HeaderSet(req.Header, KeyContentType, ApplicationJSON)]

\* Client.getClient.
getClient(c, o) ==
    IF o.Client # "nil" THEN "options.Client"
    ELSE IF ~c.Client THEN "http.DefaultClient"
    ELSE "c.Client"

\* ----------------------------------------------------------------- response
NoResponse == [StatusCode |-> 0, Body |-> <<>>, readOk |-> TRUE, unmarshals |-> "ok"]

\* How the unmarshal function takes a body and a target: it decodes, it fails
\* leaving the target as it was, or it fails with the target half written.
UnmarshalOutcomes == {"ok", "fail", "partial"}

\* What the transport can answer: a status code, a body (the JSON number 25
\* or the text "no"), whether the body stream reads to its end, and how the
\* unmarshal function will take that body.
StatusCodes == {200, 399, 400}
ResponseBodies == {<<50, 53>>, <<110, 111>>}
Responses ==
    [StatusCode : StatusCodes, Body : ResponseBodies, readOk : {TRUE},
     unmarshals : UnmarshalOutcomes]
    \cup [StatusCode : StatusCodes, Body : {<<50, 53>>}, readOk : {FALSE},
          unmarshals : {"ok"}]
TransportErrors == {"context canceled", "connection refused"}

\* The caller's result variable: untouched, decoded into, or half written
\* by a decoder that failed on the way.
OldResult == [state |-> "old", v |-> 0]

\* json.Unmarshal into the caller's variable: a body that is not JSON is
\* rejected before anything is written; a JSON body decodes, or does not fit
\* the target and fails, with or without fields already written.
jsonUnmarshal(data, v, outcome) ==
    IF ~IsDigits(data) THEN [ok |-> FALSE, v |-> v]
    ELSE IF outcome = "ok" THEN [ok |-> TRUE, v |-> [state |-> "decoded", v |-> ParseInt(data)]]
    ELSE IF outcome = "partial" THEN [ok |-> FALSE, v |-> [state |-> "partial", v |-> 0]]
    ELSE [ok |-> FALSE, v |-> v]

\* A caller-supplied UnmarshalFunc: it takes any body (one that is not a
\* number decodes to its length), or fails as above.
customUnmarshal(data, v, outcome) ==
    IF outcome = "ok" THEN
        [ok |-> TRUE,
         v |-> [state |-> "decoded", v |-> IF IsDigits(data) THEN ParseInt(data) ELSE Len(data)]]
    ELSE IF outcome = "partial" THEN [ok |-> FALSE, v |-> [state |-> "partial", v |-> 0]]
    ELSE [ok |-> FALSE, v |-> v]

\* Client.unmarshal: UnmarshalFunc when set, json.Unmarshal otherwise.
unmarshal(c, data, v, outcome) ==
    IF c.UnmarshalFunc THEN customUnmarshal(data, v, outcome)
    ELSE jsonUnmarshal(data, v, outcome)

\* -------------------------------------------------------------------- state
\* The Client values: the default facade's &Client{} and a configured one.
Clients ==
    {[Client |-> FALSE, MarshalFunc |-> FALSE, UnmarshalFunc |-> FALSE],
     [Client |-> TRUE, MarshalFunc |-> TRUE, UnmarshalFunc |-> TRUE]}

Methods == {"GET", "POST", "PUT", "PATCH", "DELETE"}

VARIABLES
    client,         \* the Client the calls are made on
    pc,             \* position of the call in progress
    call,           \* its arguments: method, urlOk, body, result, opts
    options,        \* the folded *Options
    heap,           \* the header maps
    req,            \* the *http.Request built
    via,            \* the transport chosen by getClient
    resp,           \* the *http.Response
    body,           \* the bytes io.ReadAll returned
    err,            \* the error the call returns (<<>> is nil), outermost first
    sinks,          \* the caller's status variables
    resultSink,     \* the caller's result variable
    marshalCalls,   \* uses of the marshal function in this call
    doCalls,        \* uses of client.Do in this call
    unmarshalCalls, \* uses of the unmarshal function in this call
    statusWrites,   \* writes to each status variable in this call
    reads,          \* io.ReadAll of the response body in this call
    closes,         \* resp.Body.Close in this call
    calls           \* the calls made on the Client so far, this one included

vars == <<client, pc, call, options, heap, req, via, resp, body, err, sinks,
          resultSink, marshalCalls, doCalls, unmarshalCalls, statusWrites,
          reads, closes, calls>>

NoCall ==
    [method |-> "", urlOk |-> TRUE, body |-> NilBody, marshalFails |-> FALSE,
     result |-> FALSE, opts |-> <<>>]

Init ==
    /\ client \in Clients
    /\ pc = "idle"
    /\ call = NoCall
    /\ options = ZeroOptions
    /\ heap = InitHeap
    /\ req = NoRequest
    /\ via = "none"
    /\ resp = NoResponse
    /\ body = <<>>
    /\ err = <<>>
    /\ sinks = [x \in Sinks |-> 0]
    /\ resultSink = OldResult
    /\ marshalCalls = 0
    /\ doCalls = 0
    /\ unmarshalCalls = 0
    /\ statusWrites = [x \in Sinks |-> 0]
    /\ reads = 0
    /\ closes = 0
    /\ calls = 1

\* A method is entered: the caller's variables are as the caller declared
\* them, and options := buildOptions(opts...) is the method's first line.
Enter(method, urlOk, b, result, opts) ==
    /\ pc = "idle"
    /\ \E f \in (IF client.MarshalFunc /\ b.kind # "nil" THEN BOOLEAN ELSE {FALSE}) :
        call' = [method |-> method, urlOk |-> urlOk, body |-> b, marshalFails |-> f,
                 result |-> result, opts |-> opts]
    /\ LET st == buildOptions(opts, heap)
       IN  options' = st.o /\ heap' = st.heap
    /\ pc' = "build"
    /\ req' = NoRequest
    /\ via' = "none"
    /\ resp' = NoResponse
    /\ body' = <<>>
    /\ err' = <<>>
    /\ sinks' = [x \in Sinks |-> 0]
    /\ resultSink' = OldResult
    /\ marshalCalls' = 0
    /\ doCalls' = 0
    /\ unmarshalCalls' = 0
    /\ statusWrites' = [x \in Sinks |-> 0]
    /\ reads' = 0
    /\ closes' = 0
    /\ UNCHANGED <<client, calls>>

\* The five methods. The URL may be one http.NewRequestWithContext rejects,
\* result may be nil, the body of Post, Put and Patch is any of Bodies, and a
\* custom MarshalFunc may fail on the body it is given.
Get ==
    /\ pc = "idle"
    /\ \E u \in BOOLEAN, r \in BOOLEAN, o \in OptionLists : Enter("GET", u, NilBody, r, o)

Post ==
    /\ pc = "idle"
    /\ \E u \in BOOLEAN, b \in Bodies, r \in BOOLEAN, o \in OptionLists :
        Enter("POST", u, b, r, o)

Patch ==
    /\ pc = "idle"
    /\ \E u \in BOOLEAN, b \in Bodies, r \in BOOLEAN, o \in OptionLists :
        Enter("PATCH", u, b, r, o)

Delete ==
    /\ pc = "idle"
    /\ \E u \in BOOLEAN, r \in BOOLEAN, o \in OptionLists : Enter("DELETE", u, NilBody, r, o)

\* Put is called by the facade; its body is not among the sources. It follows
\* the protocol common to the five operations, with a body and without the
\* forced Content-Type.
Put ==
    /\ pc = "idle"
    /\ \E u \in BOOLEAN, b \in Bodies, r \in BOOLEAN, o \in OptionLists :
        Enter("PUT", u, b, r, o)

\* Post and Patch set the Content-Type after buildRequest; the others do not.
ForcesContentType(method) == method \in {"POST", "PATCH"}

\* req, err := c.buildRequest(...); if err != nil { return wrapped }
BuildRequest ==
    /\ pc = "build"
    /\ \E ord \in Orders(DOMAIN HeadersOf(options, heap)) :
        LET r == buildRequest(client, call.method, call.urlOk, call.body,
                              options, heap, call.marshalFails, ord)
        IN  /\ marshalCalls' = marshalCalls + (IF call.body.kind # "nil" THEN 1 ELSE 0)
            /\ IF r.ok
               THEN /\ req' = IF ForcesContentType(call.method)
                              THEN SetContentType(r.req) ELSE r.req
                    /\ pc' = "do"
                    /\ err' = <<>>
               ELSE /\ req' = NoRequest
                    /\ pc' = "done"
                    /\ err' = <<"failed to create", call.method, "request">> \o r.err
    /\ UNCHANGED <<client, calls, call, options, heap, via, resp, body, sinks, resultSink,
                   doCalls, unmarshalCalls, statusWrites, reads, closes>>

\* Variant: a failed Do is tried a second time.
DoWithRetry ==
    /\ pc = "do"
    /\ via' = getClient(client, options)
    /\ doCalls' = doCalls + 1
    /\ \/ \E r \in Responses :
            /\ resp' = r
            /\ pc' = "status"
            /\ err' = <<>>
       \/ \E e \in TransportErrors :
            /\ resp' = NoResponse
            /\ pc' = IF doCalls = 0 THEN "do" ELSE "done"
            /\ err' = <<"failed to make", call.method, "request", e>>
    /\ UNCHANGED <<client, calls, call, options, heap, req, body, sinks, resultSink,
                   marshalCalls, unmarshalCalls, statusWrites, reads, closes>>

\* client := c.getClient(options); resp, err := client.Do(req)
Do ==
    /\ pc = "do"
    /\ via' = getClient(client, options)
    /\ doCalls' = doCalls + 1
    /\ \/ \E r \in Responses :
            /\ resp' = r
            /\ pc' = "status"
            /\ err' = <<>>
       \/ \E e \in TransportErrors :
            /\ resp' = NoResponse
            /\ pc' = "done"
            /\ err' = <<"failed to make", call.method, "request", e>>
    /\ UNCHANGED <<client, calls, call, options, heap, req, body, sinks, resultSink,
                   marshalCalls, unmarshalCalls, statusWrites, reads, closes>>

\* Variant: the status is stored only for an error status.
recordsStatusOnError(o, r) == o.Status # "nil" /\ r.StatusCode >= 400

\* if options.Status != nil { *options.Status = resp.StatusCode }
recordsStatus(o, r) == o.Status # "nil"

\* Variants: the comparison is strict; the threshold is 300.
isHTTPErrorAbove400(o, r) == o.Status = "nil" /\ r.StatusCode > 400
isHTTPErrorFrom300(o, r) == o.Status = "nil" /\ r.StatusCode >= 300

\* if options.Status == nil && resp.StatusCode >= 400 { return HTTP error }
isHTTPError(o, r) == o.Status = "nil" /\ r.StatusCode >= 400

\* Variant: any unmarshal error is ignored once Status is set.
ignoresUnmarshalErrorAnyStatus(o, r) == o.Status # "nil"

\* if options.Status != nil && resp.StatusCode >= 400 { return nil }
ignoresUnmarshalError(o, r) == o.Status # "nil" /\ r.StatusCode >= 400

\* parseResponse, first part: the status is stored, and a status >= 400
\* without a Status pointer is an error.
parseStatus ==
    /\ pc = "status"
    /\ IF recordsStatus(options, resp)
       THEN /\ sinks' = [sinks EXCEPT ![options.Status] = resp.StatusCode]
            /\ statusWrites' = [statusWrites EXCEPT ![options.Status] = @ + 1]
       ELSE UNCHANGED <<sinks, statusWrites>>
    /\ IF isHTTPError(options, resp)
       THEN /\ err' = <<"HTTP error", ToString(resp.StatusCode)>>
            /\ pc' = "close"
       ELSE /\ err' = <<>>
            /\ pc' = "read"
    /\ UNCHANGED <<client, calls, call, options, heap, req, via, resp, body, resultSink,
                   marshalCalls, doCalls, unmarshalCalls, reads, closes>>

\* Variant: the error of io.ReadAll is dropped and the bytes read are decoded.
readBodyIgnoringError ==
    /\ pc = "read"
    /\ reads' = reads + 1
    /\ body' = IF resp.readOk THEN resp.Body ELSE <<>>
    /\ err' = <<>>
    /\ pc' = "decode"
    /\ UNCHANGED <<client, calls, call, options, heap, req, via, resp, sinks, resultSink,
                   marshalCalls, doCalls, unmarshalCalls, statusWrites, closes>>

\* parseResponse, second part: body, err := io.ReadAll(resp.Body)
readBody ==
    /\ pc = "read"
    /\ reads' = reads + 1
    /\ IF resp.readOk
       THEN /\ body' = resp.Body
            /\ err' = <<>>
            /\ pc' = "decode"
       ELSE /\ body' = <<>>
            /\ err' = <<"failed to read response body", "read error">>
            /\ pc' = "close"
    /\ UNCHANGED <<client, calls, call, options, heap, req, via, resp, sinks, resultSink,
                   marshalCalls, doCalls, unmarshalCalls, statusWrites, closes>>

\* parseResponse, third part: the body is decoded into result when result is
\* not nil; a failure is ignored when Status is set and the status >= 400.
decode ==
    /\ pc = "decode"
    /\ IF call.result
       THEN LET u == unmarshal(client, body, resultSink, resp.unmarshals)
            IN  /\ unmarshalCalls' = unmarshalCalls + 1
                /\ resultSink' = u.v
                /\ err' = IF u.ok THEN <<>>
                          ELSE IF ignoresUnmarshalError(options, resp) THEN <<>>
                          ELSE <<"failed to unmarshal JSON response", "unmarshal error">>
       ELSE /\ err' = <<>>
            /\ UNCHANGED <<unmarshalCalls, resultSink>>
    /\ pc' = "close"
    /\ UNCHANGED <<client, calls, call, options, heap, req, via, resp, body, sinks,
                   marshalCalls, doCalls, statusWrites, reads, closes>>

\* Variant: the body is closed on the successful return only, not deferred.
CloseOnSuccessOnly ==
    /\ pc = "close"
    /\ closes' = IF err = <<>> THEN closes + 1 ELSE closes
    /\ pc' = "done"
    /\ UNCHANGED <<client, calls, call, options, heap, req, via, resp, body, err, sinks,
                   resultSink, marshalCalls, doCalls, unmarshalCalls, statusWrites, reads>>

\* defer func() { _ = resp.Body.Close() }(): runs as the method returns.
Close ==
    /\ pc = "close"
    /\ closes' = closes + 1
    /\ pc' = "done"
    /\ UNCHANGED <<client, calls, call, options, heap, req, via, resp, body, err, sinks,
                   resultSink, marshalCalls, doCalls, unmarshalCalls, statusWrites, reads>>

Next ==
    \/ Get
    \/ Post
    \/ Put
    \/ Patch
    \/ Delete
    \/ BuildRequest
    \/ Do
    \/ parseStatus
    \/ readBody
    \/ decode
    \/ Close

Spec == Init /\ [][Next]_vars

\* The caller makes another call on the same Client once one has returned.
\* The maps the caller holds are as the calls so far left them; the Options
\* of the returned call, its map made by WithHeader, its request and its
\* response are garbage.
NextCall ==
    /\ pc = "done"
    /\ calls < MaxCalls
    /\ calls' = calls + 1
    /\ pc' = "idle"
    /\ heap' = [heap EXCEPT !["made"] = EmptyMap]
    /\ call' = NoCall
    /\ options' = ZeroOptions
    /\ req' = NoRequest
    /\ via' = "none"
    /\ resp' = NoResponse
    /\ body' = <<>>
    /\ err' = <<>>
    /\ sinks' = [x \in Sinks |-> 0]
    /\ resultSink' = OldResult
    /\ marshalCalls' = 0
    /\ doCalls' = 0
    /\ unmarshalCalls' = 0
    /\ statusWrites' = [x \in Sinks |-> 0]
    /\ reads' = 0
    /\ closes' = 0
    /\ UNCHANGED client

\* Successive calls on one Client.
NextSuccessive ==
    \/ Get
    \/ Post
    \/ Put
    \/ Patch
    \/ Delete
    \/ BuildRequest
    \/ Do
    \/ parseStatus
    \/ readBody
    \/ decode
    \/ Close
    \/ NextCall

SpecSuccessive == Init /\ [][NextSuccessive]_vars

\* ------------------------------------------------------------------- claims
\* The transport returned a response in this call.
GotResponse == resp.StatusCode # 0

\* The call has returned.
Returned == pc = "done"

\* The unmarshal function, given this response's body and the caller's
\* variable, decodes it.
Decodable == resp.readOk /\ unmarshal(client, resp.Body, OldResult, resp.unmarshals).ok

HTTPStatusError == <<"HTTP error", ToString(resp.StatusCode)>>
DecodeError == <<"failed to unmarshal JSON response", "unmarshal error">>

\* C1: for Get, Post, Patch and Delete, once a response with status >= 400
\* is obtained and the options hold no Status pointer, the unmarshal function
\* is never used and the caller's result variable keeps its value, and the
\* call returns the HTTP status error.
StatusErrorWithoutSink ==
    (/\ call.method \in {"GET", "POST", "PATCH", "DELETE"}
     /\ GotResponse
     /\ resp.StatusCode >= 400
     /\ options.Status = "nil")
    => /\ unmarshalCalls = 0
       /\ resultSink = OldResult
       /\ Returned => err = HTTPStatusError

StatusErrorWithoutSinkWitness ==
    /\ Returned
    /\ call.method = "DELETE"
    /\ call.result
    /\ resp.StatusCode = 400
    /\ resp.unmarshals = "ok"
    /\ options.Status = "nil"
    /\ err = <<"HTTP error", "400">>

\* C2: when the unmarshal function was used and failed, the call returns nil
\* exactly when the options hold a Status pointer and the status is >= 400;
\* otherwise it returns the decode error wrapping the cause.
UnmarshalFailed ==
    unmarshalCalls = 1 /\ ~unmarshal(client, resp.Body, OldResult, resp.unmarshals).ok

DecodeErrorSuppression ==
    (Returned /\ UnmarshalFailed)
    => /\ (err = <<>>) <=> (options.Status # "nil" /\ resp.StatusCode >= 400)
       /\ (err # <<>>) => err = DecodeError
       /\ resp.StatusCode < 400 => err = DecodeError

DecodeErrorSuppressionWitness ==
    /\ Returned
    /\ UnmarshalFailed
    /\ options.Status # "nil"
    /\ resp.StatusCode = 400
    /\ err = <<>>

\* The other side of C2: a failure below 400 with a Status pointer is returned.
DecodeErrorReturnedWitness ==
    /\ Returned
    /\ UnmarshalFailed
    /\ options.Status # "nil"
    /\ resp.StatusCode = 399
    /\ err = DecodeError

\* C3: the Status pointer of the folded options is written exactly once, with
\* the response's status code, as soon as the response is interpreted and
\* whatever the call returns; no other status variable is written, and none
\* is written in a call that obtained no response.
StatusCaptureUnconditional ==
    /\ \A x \in Sinks : statusWrites[x] <= 1
    /\ \A x \in Sinks : x # options.Status => statusWrites[x] = 0 /\ sinks[x] = 0
    /\ (Returned /\ ~GotResponse) => \A x \in Sinks : statusWrites[x] = 0 /\ sinks[x] = 0
    /\ (GotResponse /\ options.Status # "nil" /\ pc # "status")
       => /\ sinks[options.Status] = resp.StatusCode
          /\ statusWrites[options.Status] = 1

StatusCaptureUnconditionalWitness ==
    /\ Returned
    /\ options.Status = "s2"
    /\ resp.StatusCode = 399
    /\ sinks["s2"] = 399
    /\ err = <<"failed to read response body", "read error">>

\* C4: a response with status < 400 whose body the unmarshal function decodes,
\* received by a call with a result that is not nil, makes the call return nil
\* with the decoded value in the caller's variable, with or without a Status
\* pointer.
DecodedValue == unmarshal(client, resp.Body, OldResult, "ok").v

SuccessPopulatesResult ==
    (Returned /\ GotResponse /\ resp.StatusCode < 400 /\ Decodable /\ call.result)
    => /\ err = <<>>
       /\ resultSink.state = "decoded"
       /\ resultSink = DecodedValue
       /\ resp.Body = <<50, 53>> => resultSink.v = 25

SuccessPopulatesResultWitness ==
    /\ Returned
    /\ resp.StatusCode = 200
    /\ resp.Body = <<50, 53>>
    /\ call.result
    /\ options.Status = "nil"
    /\ ~client.UnmarshalFunc
    /\ err = <<>>
    /\ resultSink = [state |-> "decoded", v |-> 25]

\* C5: a []byte body is sent as it is, without a use of the marshal function.
BytesBodyPassThrough ==
    (req # NoRequest /\ call.body.kind = "bytes")
    => /\ req.Payload = call.body.data
       /\ marshalCalls = 0

\* C6: a request built by Post or Patch carries the one Content-Type value
\* application/json, whatever the options hold under Content-Type in either
\* letter case; a request built by Get, Put or Delete carries a Content-Type
\* only if the options hold one, and then one of the values they hold.
NamesContentType(k) == k \in {KeyContentType, KeyContentTypeLower}
SuppliedContentTypes ==
    {HeadersOf(options, heap)[k] :
        k \in {x \in DOMAIN HeadersOf(options, heap) : NamesContentType(x)}}

ContentTypePolicy ==
    req # NoRequest
    => /\ KeyContentTypeLower \notin DOMAIN req.Header
       /\ IF call.method \in {"POST", "PATCH"}
          THEN /\ KeyContentType \in DOMAIN req.Header
               /\ req.Header[KeyContentType] = <<ApplicationJSON>>
          ELSE IF SuppliedContentTypes = {}
          THEN KeyContentType \notin DOMAIN req.Header
          ELSE /\ KeyContentType \in DOMAIN req.Header
               /\ \E v \in SuppliedContentTypes : req.Header[KeyContentType] = <<v>>

ContentTypePolicyWitness ==
    /\ call.method = "PATCH"
    /\ options.Headers # "nil"
    /\ KeyContentTypeLower \in DOMAIN HeadersOf(options, heap)
    /\ HeadersOf(options, heap)[KeyContentTypeLower] = "2"
    /\ doCalls = 1
    /\ req.Header[KeyContentType] = <<ApplicationJSON>>

\* The other side of C6: Get passes the caller's Content-Type through.
ContentTypeNotForcedWitness ==
    /\ call.method = "GET"
    /\ doCalls = 1
    /\ KeyContentType \in DOMAIN req.Header
    /\ req.Header[KeyContentType] = <<"2">>

\* C7: when marshalling the body fails, client.Do is never used in the call,
\* the call returns the request construction error wrapping the marshal
\* error, and neither the status variables nor the result are written.
MarshalFails ==
    /\ pc # "idle"
    /\ call.body.kind # "nil"
    /\ ~marshal(client, call.body, call.marshalFails).ok

MarshalFailureAborts ==
    MarshalFails
    => /\ doCalls = 0
       /\ via = "none"
       /\ \A x \in Sinks : statusWrites[x] = 0 /\ sinks[x] = 0
       /\ resultSink = OldResult
       /\ unmarshalCalls = 0
       /\ pc \in {"build", "done"}
       /\ Returned => err = <<"failed to create", call.method, "request",
                              "failed to marshal request body", "marshal error">>

MarshalFailureAbortsWitness ==
    /\ Returned
    /\ call.method = "POST"
    /\ call.body = ChanBody
    /\ call.urlOk
    /\ call.result
    /\ options.Status = "s1"
    /\ marshalCalls = 1
    /\ doCalls = 0
    /\ err = <<"failed to create", "POST", "request",
               "failed to marshal request body", "marshal error">>

\* C10: client.Do is used at most once in a call; when it fails the call has
\* returned, with the error naming the method and wrapping the cause, and
\* neither the status variables nor the result are written.
DispatchFailed == doCalls > 0 /\ ~GotResponse

SingleDispatch ==
    /\ doCalls <= 1
    /\ DispatchFailed
       => /\ Returned
          /\ \E e \in TransportErrors : err = <<"failed to make", call.method, "request", e>>
          /\ \A x \in Sinks : statusWrites[x] = 0 /\ sinks[x] = 0
          /\ resultSink = OldResult
          /\ reads = 0
          /\ unmarshalCalls = 0

SingleDispatchWitness ==
    /\ Returned
    /\ doCalls = 1
    /\ call.method = "GET"
    /\ call.result
    /\ options.Status = "s1"
    /\ err = <<"failed to make", "GET", "request", "context canceled">>

\* The last WithHeader of the option list for key k, and what follows it.
HeaderOptionsFor(k) == {i \in 1..Len(call.opts) : call.opts[i].op = "WithHeader" /\ call.opts[i].key = k}
LastHeaderOptionFor(k) == CHOOSE i \in HeaderOptionsFor(k) : \A j \in HeaderOptionsFor(k) : j <= i
SameName(k1, k2) == k1 = k2 \/ (NamesContentType(k1) /\ NamesContentType(k2))
NameOf(k) == IF NamesContentType(k) THEN KeyContentType ELSE k

NoHeadersOptionAfter(i) ==
    \A j \in (i + 1)..Len(call.opts) : call.opts[j].op # "WithHeaders"
OtherSpellings(k) ==
    {x \in DOMAIN HeadersOf(options, heap) : x # k /\ SameName(x, k)}

SetsName(opt, k) ==
    \/ opt.op = "WithHeader" /\ SameName(opt.key, k)
    \/ opt.op = "WithHeaders" /\ \E x \in DOMAIN InitHeap[opt.ref] : SameName(x, k)
ValueSet(opt, k) ==
    IF opt.op = "WithHeader" THEN opt.value ELSE InitHeap[opt.ref][k]
SetsKey(opt, k) ==
    \/ opt.op = "WithHeader" /\ opt.key = k
    \/ opt.op = "WithHeaders" /\ k \in DOMAIN InitHeap[opt.ref]

HeadersAccumulate ==
    req # NoRequest
    => \A i \in 1..Len(call.opts) : \A k \in Keys :
        (/\ SetsKey(call.opts[i], k)
         /\ \A j \in (i + 1)..Len(call.opts) : ~SetsName(call.opts[j], k)
         /\ ~(ForcesContentType(call.method) /\ NamesContentType(k)))
        => /\ NameOf(k) \in DOMAIN req.Header
           /\ req.Header[NameOf(k)] = <<ValueSet(call.opts[i], k)>>

\* The kind of an error, read from its outermost message.
ErrorKind(e) ==
    IF e = <<>> THEN "nil"
    ELSE IF e[1] = "failed to create" THEN "RequestConstructionError"
    ELSE IF e[1] = "failed to make" THEN "TransportError"
    ELSE IF e[1] = "HTTP error" THEN "HTTPStatusError"
    ELSE IF e[1] = "failed to unmarshal JSON response" THEN "DecodeError"
    ELSE IF e[1] = "failed to read response body" THEN "BodyReadError"
    ELSE "unknown"

FourErrorKinds ==
    {"RequestConstructionError", "TransportError", "HTTPStatusError", "DecodeError"}

\* The steps of a call and whether each fails. A decode failure that the
\* status capture rule suppresses is not a failing step.
ConstructFails == MarshalFails \/ (pc # "idle" /\ ~call.urlOk)
StatusFails == GotResponse /\ options.Status = "nil" /\ resp.StatusCode >= 400
ReadFails == GotResponse /\ ~StatusFails /\ ~resp.readOk
DecodeFails ==
    /\ GotResponse /\ ~StatusFails /\ resp.readOk /\ call.result
    /\ ~unmarshal(client, resp.Body, OldResult, resp.unmarshals).ok
    /\ ~(options.Status # "nil" /\ resp.StatusCode >= 400)

\* A returned call stopped at its first failing step, with that step's error
\* and without running a later step, or ran every step and returned nil.
StopsAtFirstFailure ==
    Returned
    => IF ConstructFails THEN
           /\ ErrorKind(err) = "RequestConstructionError"
           /\ doCalls = 0 /\ reads = 0 /\ unmarshalCalls = 0
           /\ \A x \in Sinks : statusWrites[x] = 0
       ELSE IF DispatchFailed THEN
           /\ ErrorKind(err) = "TransportError"
           /\ doCalls = 1 /\ reads = 0 /\ unmarshalCalls = 0
           /\ \A x \in Sinks : statusWrites[x] = 0
       ELSE IF StatusFails THEN
           /\ ErrorKind(err) = "HTTPStatusError"
           /\ doCalls = 1 /\ reads = 0 /\ unmarshalCalls = 0
       ELSE IF ReadFails THEN
           /\ err # <<>>
           /\ doCalls = 1 /\ reads = 1 /\ unmarshalCalls = 0
       ELSE IF DecodeFails THEN
           /\ ErrorKind(err) = "DecodeError"
           /\ doCalls = 1 /\ reads = 1 /\ unmarshalCalls = 1
       ELSE
           /\ err = <<>>
           /\ marshalCalls = (IF call.body.kind # "nil" THEN 1 ELSE 0)
           /\ doCalls = 1 /\ reads = 1
           /\ unmarshalCalls = (IF call.result THEN 1 ELSE 0)

\* C11 as stated: a returned call ran every step and returned nil, or stopped
\* at its first failing step with that step's error, and every error is of
\* one of the four kinds.
FourKindsOfError ==
    /\ StopsAtFirstFailure
    /\ Returned => ErrorKind(err) \in FourErrorKinds \cup {"nil"}

\* C11 as amended: the same, with a fifth kind of error, the failure to read
\* the response body, which is the error of the read step.
FiveKindsOfError ==
    /\ StopsAtFirstFailure
    /\ Returned => ErrorKind(err) \in FourErrorKinds \cup {"BodyReadError", "nil"}
    /\ (Returned /\ ~ConstructFails /\ ~DispatchFailed /\ ~StatusFails)
       => (ReadFails <=> ErrorKind(err) = "BodyReadError")

FiveKindsOfErrorWitness ==
    /\ Returned
    /\ ReadFails
    /\ call.result
    /\ resp.StatusCode = 200
    /\ reads = 1
    /\ unmarshalCalls = 0
    /\ err = <<"failed to read response body", "read error">>

\* The values this call's own options give for a header name: those of its
\* WithHeader options and those the caller put in the maps it passes.
OwnHeaderValues(n) ==
    {call.opts[i].value :
        i \in {j \in 1..Len(call.opts) :
                  call.opts[j].op = "WithHeader" /\ NameOf(call.opts[j].key) = n}}
    \cup UNION {{InitHeap[call.opts[i].ref][k] :
                    k \in {x \in DOMAIN InitHeap[call.opts[i].ref] : NameOf(x) = n}} :
                 i \in {j \in 1..Len(call.opts) : call.opts[j].op = "WithHeaders"}}

\* The request of a call carries only headers its own options give (or the
\* Content-Type its method forces).
HeadersFromOwnOptions ==
    req # NoRequest
    => \A n \in DOMAIN req.Header :
        \/ ForcesContentType(call.method) /\ n = KeyContentType
              /\ req.Header[n] = <<ApplicationJSON>>
        \/ \E v \in OwnHeaderValues(n) : req.Header[n] = <<v>>

\* The maps the caller passes to WithHeaders stay as the caller wrote them.
CallerMapsUnmodified == \A r \in CallerMaps : heap[r] = InitHeap[r]

\* C12: across successive calls on one Client, no call writes what another
\* reads: the caller's maps are never modified, and no request carries a
\* header that an option of another call added.
OptionsOwnedByCall ==
    /\ CallerMapsUnmodified
    /\ HeadersFromOwnOptions

\* C13: once client.Do returned a response, its body is closed exactly once
\* by the time the call returns, whatever the call returns; it is closed as
\* the method returns, never while the response is still being interpreted,
\* read or decoded; with no response nothing is closed.
BodyClosedOnce ==
    /\ closes <= 1
    /\ (Returned /\ GotResponse) => closes = 1
    /\ ~GotResponse => closes = 0
    /\ closes = 1 => Returned
    /\ pc \in {"status", "read", "decode", "close"} => closes = 0

\* The body is not read once it is closed.
NoReadAfterClose == [][closes >= 1 => reads' = reads]_vars

BodyClosedOnceWitness ==
    /\ Returned
    /\ GotResponse
    /\ err = HTTPStatusError
    /\ reads = 0
    /\ closes = 1

\* The other exit paths of C13, each with the body closed once.
ClosedAfterReadErrorWitness ==
    Returned /\ ErrorKind(err) = "BodyReadError" /\ reads = 1 /\ closes = 1
ClosedAfterDecodeErrorWitness ==
    Returned /\ ErrorKind(err) = "DecodeError" /\ reads = 1 /\ closes = 1
ClosedAfterSuppressedErrorWitness ==
    Returned /\ UnmarshalFailed /\ err = <<>> /\ reads = 1 /\ closes = 1
ClosedAfterSuccessWitness ==
    Returned /\ resultSink.state = "decoded" /\ err = <<>> /\ reads = 1 /\ closes = 1

====
